---- MODULE Spec2Model ----
(***************************************************************************)
(* Model of the watermark variant of the gameworld.gr forum poster         *)
(* (src/src/index.ts lines 376-830, src/src/utils.ts, database helpers in  *)
(* src/unnamed/part_000).                                                  *)
(*                                                                         *)
(* One run = one call of main(): check the environment, connect, read the  *)
(* watermark file, walk the content table with processPost (recursing on   *)
(* every skip), and write at most one forum post with insertMessage.       *)
(* The job is re-invoked by a scheduler; NextRun models the next process.  *)
(*                                                                         *)
(* Time stamps are integers (one unit = one hour of wall-clock time).      *)
(***************************************************************************)
EXTENDS Integers, Sequences, FiniteSets, TLC

\* ------------------------------------------------------------------ bounds
MaxItems == 2          \* rows of jos_content in the enumerated tables
NMsgs    == 2          \* distinct composed message texts
MaxRuns  == 2          \* invocations of the job in one behaviour

\* ------------------------------------------------------- program constants
MAX_RECURSION == 100

\* The zone offsets the process may run under, as (Europe/Athens offset -
\* process-local offset) in hours.  mysql2 parses DATETIME columns in the
\* process-local zone (no `timezone` in dbConfig), formatDate prints the
\* instant in Europe/Athens.
TzShifts == {-1, 0, 1}

VARIABLES
  content,     \* jos_content rows matching '%forum topic%': Seq of items
  tzShift,     \* Athens offset minus process-local offset (deployment)
  wm,          \* last_created.txt: <<>> (missing/empty) or <<timestamp>>
  db,          \* committed rows of the forum store
  tx,          \* the connection's view inside its open transaction
  txOpen,      \* a transaction is open on the connection
  pc,          \* position of the run
  env,         \* process.env of this run: USER_ID / USER_NAME present
  connected,   \* the connection is open
  created,     \* processPost parameter: the local watermark
  depth,       \* processPost parameter: recursion depth
  cur,         \* index in content of nextPost (0: none)
  step,        \* insertMessage: the write statement to run next (1..7)
  outcome,     \* how the run ended (what was logged last)
  runs,        \* number of the current invocation
  prev,        \* the row the previous invocation posted (0: it posted none)
  \* ---- observations of the current run (history, never read by the code)
  wmAtStart,   \* wm when the run started
  dbAtStart,   \* db when the run started
  commits,     \* successful connection.commit() calls
  wmWrites,    \* successful fs.writeFile calls
  fetches,     \* getNextPost queries issued
  failedStep,  \* first write step (1..7) that reported zero rows or a fault
  failed,      \* insertMessage entered its catch block
  examined,    \* how often getNextPost returned each row to processPost
  \* ---- one content body on its way through processPost lines 664-721
  fulltext,         \* nextPost.fulltext as the URL pattern reads it: tokens
  body,             \* $.root().children(): Seq of elements
  lastIndex,        \* UPDATE_REGEX.lastIndex
  unrolledElements, \* processPost local
  updateElements,   \* processPost local
  finalTitle,       \* processPost local
  urlMatch,         \* processPost local: << >> or << [cat, thread] >>
  finalUpdates,     \* processPost local: the candidates the filter kept
  spc               \* position in lines 664-758

segVars == << fulltext, body, lastIndex, unrolledElements, updateElements,
             finalTitle, urlMatch, finalUpdates, spc >>

pipeVars == << content, tzShift, wm, db, tx, txOpen, pc, env, connected,
               created, depth, cur, step, outcome, runs, prev, wmAtStart,
               dbAtStart, commits, wmWrites, fetches, failedStep, failed,
               examined >>

vars == << pipeVars, segVars >>

runVars == << created, depth, cur, step >>
fixedVars == << content, tzShift, segVars >>
storeVars == << db, tx, txOpen >>
histVars == << wmAtStart, dbAtStart, commits, wmWrites, fetches, failedStep,
               failed, examined >>

\* ------------------------------------------------------------ content rows
\* url:    the body holds forum/<digits>/<digits>
\* thread: jos_kunena_topics has the row the URL names
\* image:  jos_jreviews_media has a main image for the listing
\* msg:    the text the Composer produces for the row
\* children: the body has child elements (FALSE: text only)
ItemShapes ==
  { [url |-> FALSE, thread |-> FALSE, image |-> FALSE, msg |-> 1],
    [url |-> TRUE,  thread |-> FALSE, image |-> FALSE, msg |-> 1],
    [url |-> TRUE,  thread |-> TRUE,  image |-> FALSE, msg |-> 1] }
  \cup { [url |-> TRUE, thread |-> TRUE, image |-> TRUE, msg |-> m] : m \in 1..NMsgs }

Item(t, s) == [created |-> t, url |-> s.url, thread |-> s.thread,
               image |-> s.image, msg |-> s.msg, children |-> TRUE]

Items(n) == { Item(t, s) : t \in 1..n, s \in ItemShapes }

\* Tables of 1..MaxItems rows, listed in ascending order of `created`
\* (rows may share a creation time).
SmallContents ==
  UNION { { c \in [1..n -> Items(n)] :
              \A i \in 1..(n-1) : c[i].created <= c[i+1].created }
          : n \in 1..MaxItems }

\* A backlog of n rows, one per hour, none of which has a thread URL.
Backlog(n) == [i \in 1..n |-> Item(i, [url |-> FALSE, thread |-> FALSE,
                                        image |-> FALSE, msg |-> 1])]

\* The same backlog followed by one row that could be posted.
BacklogThenPost(n) ==
  [i \in 1..(n+1) |->
     IF i <= n THEN Backlog(n)[i]
     ELSE Item(n+1, [url |-> TRUE, thread |-> TRUE, image |-> TRUE, msg |-> 1])]

\* One row whose body is text without any element: a thread URL, a thread
\* and an image exist for it, its composed text is title and image alone.
TextOnlyContent ==
  << [created |-> 1, url |-> TRUE, thread |-> TRUE, image |-> TRUE,
      msg |-> 1, children |-> FALSE] >>

Contents == SmallContents
            \cup { Backlog(MAX_RECURSION + 1), BacklogThenPost(MAX_RECURSION + 1) }
            \cup { TextOnlyContent }

EmptyDb == [messages |-> 0, texts |-> << >>, posts |-> 0,
            topicLast |-> 0, catLast |-> 0, activities |-> << >>]

\* ------------------------------------------------------------------ utils
\* formatDate: the Date mysql2 built from the DATETIME in the process-local
\* zone, printed as Europe/Athens wall-clock time.
formatDate(d) == d + tzShift

\* getLastProcessedDate: the trimmed file, or undefined (<<>>) when the read
\* throws; an empty file is falsy in main just the same.
getLastProcessedDate(file, readOk) == IF readOk THEN file ELSE << >>

\* setLastProcessedDate: the new file content.
setLastProcessedDate(d) == << formatDate(d) >>

\* ------------------------------------------------------------- database
\* queryDatabase returns the rows, or undefined when the statement throws.
QueryResults == {"ok", "fault"}
WriteResults == {"ok", "zero", "fault"}

\* Variant of stepFailed that forgets the affectedRows test.
stepFailedFaultOnly(res) == res = "fault"

\* `!res || res.affectedRows === 0`
stepFailed(res) == res # "ok"

\* ---------------------------------------------------------------- queries
MinCreated(S) == CHOOSE t \in S : \A u \in S : t <= u

\* Variant of getNextPost whose query reads `created >= ?`.
getNextPostInclusive(c, wmark, res) ==
  LET later == { i \in DOMAIN c : c[i].created >= wmark } IN
  IF res = "fault" \/ later = {} THEN {}
  ELSE { i \in later : c[i].created = MinCreated({ c[j].created : j \in later }) }

\* getNextPost: the rows `created > ? ORDER BY created ASC LIMIT 1` can
\* return (any of the rows sharing the smallest time); none on a fault.
getNextPost(c, wmark, res) ==
  LET later == { i \in DOMAIN c : c[i].created > wmark } IN
  IF res = "fault" \/ later = {} THEN {}
  ELSE { i \in later : c[i].created = MinCreated({ c[j].created : j \in later }) }

getSubjectAndParent(item, res) == res = "ok" /\ item.thread

getImage(item, res) == res = "ok" /\ item.image

\* hasBeenPosted: a committed text row of the poster equal to the message.
hasBeenPosted(d, message, res) ==
  /\ res = "ok"
  /\ \E k \in DOMAIN d.texts :
        d.texts[k].message = message /\ d.texts[k].mesid <= d.messages

\* ================================================================ segmenter
\* processPost lines 664-721 on one content body.  A text is a sequence of
\* tokens: "[", "]", ":", "-", " ", a digit, a word ("a", "b"), "U" for the
\* word UPDATE in capitals, "u" for it in any other case, "F" for the literal `forum/`, "/" for a slash.
\* An element is [tag, text, kids]: its own text followed by its child
\* elements.

MaxTop == 2          \* top-level elements of an enumerated body
MaxMid == 3          \* tokens between `[UPDATE` and `]` of an enumerated marker
MaxUrlParts == 3     \* pieces an enumerated fulltext is concatenated from
MaxFrags == 3        \* paragraphs of an enumerated body for the filter

Digits == {"0", "1", "2", "5", "7"}
Spaces == {" "}
\* The delimiters of line 691: hyphen, colon, opening bracket, em dash and
\* en dash (the two dashes are the tokens "emdash" and "endash").
Delimiters == {"-", ":", "[", "emdash", "endash"}

Reverse(q) == [i \in 1..Len(q) |-> q[Len(q) + 1 - i]]

RECURSIVE Concat(_)
Concat(qs) == IF qs = << >> THEN << >> ELSE Head(qs) \o Concat(Tail(qs))

\* $(element).text(): the text of the element and of all its descendants.
RECURSIVE TextOf(_)
TextOf(el) ==
  el.text \o Concat([k \in 1..Len(el.kids) |-> TextOf(el.kids[k])])

\* First index >= i whose token is not in S (Len + 1 if there is none).
RECURSIVE skipWhile(_, _, _)
skipWhile(text, i, S) ==
  IF i <= Len(text) /\ text[i] \in S THEN skipWhile(text, i + 1, S) ELSE i

\* First index >= i holding token c, 0 if there is none.
RECURSIVE indexFrom(_, _, _)
indexFrom(text, i, c) ==
  IF i > Len(text) THEN 0
  ELSE IF text[i] = c THEN i ELSE indexFrom(text, i + 1, c)

\* `(?::\s*(.+?))?\]` with the colon at index j: the index of the closing
\* bracket, 0 if the group cannot match.  \s* is greedy, .+? takes at least
\* one token and then stops at the first "]"; when nothing but "]" follows
\* the white space, \s* gives its last blank to .+? .
colonGroupEnd(text, j) ==
  LET q == skipWhile(text, j + 1, Spaces)
      e == indexFrom(text, q + 1, "]")
  IN  IF e > 0 THEN e
      ELSE IF q <= Len(text) /\ text[q] = "]" /\ q - 1 >= j + 1 THEN q
      ELSE 0

\* UPDATE_REGEX = /\[UPDATE(?:\s*\d*)?(?::\s*(.+?))?\]/gi matched at index
\* i (the i flag admits either spelling): the index of the last token of the match, 0 if it does not match.
matchEndAt(text, i) ==
  IF i + 1 > Len(text) \/ text[i] # "[" \/ text[i + 1] \notin {"U", "u"}
  THEN 0
  ELSE LET j == skipWhile(text, skipWhile(text, i + 2, Spaces), Digits)
       IN  IF j > Len(text) THEN 0
           ELSE IF text[j] = ":" THEN colonGroupEnd(text, j)
           ELSE IF text[j] = "]" THEN j
           ELSE 0

\* UPDATE_REGEX.exec: the first match that starts at index i or later.
RECURSIVE execFrom(_, _)
execFrom(text, i) ==
  IF i > Len(text) THEN [found |-> FALSE, start |-> 0, end |-> 0]
  ELSE IF matchEndAt(text, i) > 0
       THEN [found |-> TRUE, start |-> i, end |-> matchEndAt(text, i)]
       ELSE execFrom(text, i + 1)

\* UPDATE_REGEX.test(text) with the g flag: the search starts at lastIndex
\* (li, counted from 0); a match moves lastIndex behind itself, a miss
\* resets it to 0.
test(text, li) ==
  LET m == execFrom(text, li + 1)
  IN  [found |-> m.found, lastIndex |-> IF m.found THEN m.end ELSE 0]

\* unrollElements, with the lastIndex it finds and the lastIndex it leaves.
RECURSIVE unrollElements(_, _), unrollAll(_, _)
unrollElements(element, li) ==
  LET hasUpdate == test(TextOf(element), li)
  IN  IF element.tag # "div" \/ ~hasUpdate.found
      THEN [out |-> << element >>, lastIndex |-> hasUpdate.lastIndex]
      ELSE unrollAll(element.kids, hasUpdate.lastIndex)

\* The loop over the children, and `elements.map(unrollElements).flat()`.
unrollAll(els, li) ==
  IF els = << >> THEN [out |-> << >>, lastIndex |-> li]
  ELSE LET h == unrollElements(Head(els), li)
           t == unrollAll(Tail(els), h.lastIndex)
       IN  [out |-> h.out \o t.out, lastIndex |-> t.lastIndex]

\* `.findIndex((text) => UPDATE_REGEX.test(text))` from index k (counted
\* from 1) of the reversed list on: the index found, counted from 0, or -1.
RECURSIVE findIndex(_, _, _)
findIndex(texts, k, li) ==
  IF k > Len(texts) THEN [index |-> -1, lastIndex |-> li]
  ELSE LET t == test(texts[k], li)
       IN  IF t.found THEN [index |-> k - 1, lastIndex |-> t.lastIndex]
           ELSE findIndex(texts, k + 1, t.lastIndex)

\* updateIndexReverse of lines 671-674.
updateIndexReverse(unrolled, li) ==
  findIndex(Reverse([k \in 1..Len(unrolled) |-> TextOf(unrolled[k])]), 1, li)

\* Variant of sliceUpdate without the test for -1.
sliceUpdateAlways(unrolled, idx) ==
  SubSeq(unrolled, Len(unrolled) - idx, Len(unrolled))

\* Lines 676-685: the whole list, or `slice(length - index - 1)`.
sliceUpdate(unrolled, idx) ==
  IF idx = -1 THEN unrolled
  ELSE SubSeq(unrolled, Len(unrolled) - idx, Len(unrolled))

\* `text.match(UPDATE_REGEX)?.[0]`: the first match in the text, << >> if
\* there is none (match starts at 0 and leaves lastIndex at 0).
firstMatch(text) ==
  LET m == execFrom(text, 1)
  IN  IF m.found THEN SubSeq(text, m.start, m.end) ELSE << >>

\* The loop of lines 693-701 over the reversed match, from index i on.
RECURSIVE stripTitle(_, _, _)
stripTitle(reversedTitle, i, acc) ==
  IF i > Len(reversedTitle) THEN acc
  ELSE IF reversedTitle[i] \in Delimiters THEN acc
  ELSE IF reversedTitle[i] = "]" THEN stripTitle(reversedTitle, i + 1, acc)
  ELSE stripTitle(reversedTitle, i + 1, Append(acc, reversedTitle[i]))

\* nextPost.title.trim(): the title of the content row.
ItemTitle == << "T" >>

\* Lines 687-702 and 736-737: the title put into the post.
titleOf(segment) ==
  LET text == IF segment = << >> THEN << >> ELSE TextOf(segment[1])
      strippedTitle == stripTitle(Reverse(firstMatch(text)), 1, << >>)
  IN  IF strippedTitle # << >> THEN Reverse(strippedTitle) ELSE ItemTitle

\* `.includes("forum topic")`: the phrase is three tokens.
Phrase == << "forum", " ", "topic" >>
includes(text, phrase) ==
  \E i \in 1..(Len(text) - Len(phrase) + 1) :
     SubSeq(text, i, i + Len(phrase) - 1) = phrase

\* `.replace(/\[UPDATE.*\][ ]*/g, "")` on one line: from the first
\* `[UPDATE` in capitals to the last "]" after it, and the blanks that
\* follow; a text without such a span is left as it is.
stripMarker(text) ==
  LET starts == {i \in 1..(Len(text) - 1) :
                    text[i] = "[" /\ text[i + 1] = "U"
                      /\ \E e \in (i + 2)..Len(text) : text[e] = "]"}
  IN  IF starts = {} THEN text
      ELSE LET i0 == CHOOSE i \in starts : \A j \in starts : i <= j
               e0 == CHOOSE e \in (i0 + 2)..Len(text) :
                        /\ text[e] = "]"
                        /\ \A f \in (e + 1)..Len(text) : text[f] # "]"
           IN  SubSeq(text, 1, i0 - 1)
                 \o SubSeq(text, skipWhile(text, e0 + 1, Spaces), Len(text))

\* Lines 739-743: each element of the segment serialized, the marker
\* stripped; the text `$(el).text()` reads from the result.
candidates(segment) ==
  [k \in 1..Len(segment) |-> stripMarker(TextOf(segment[k]))]

\* Variant of filterStep that never sets the flag.
filterStepNoFlag(n, el, index, found) ==
  IF index = n - 1 \/ index = n - 2
  THEN [keep |-> ~includes(el, Phrase), found |-> found]
  ELSE [keep |-> TRUE, found |-> found]

\* The callback of lines 744-758 for candidate el at index (from 0) of n:
\* whether it is kept, and foundForumTopic afterwards.
filterStep(n, el, index, found) ==
  IF found THEN [keep |-> FALSE, found |-> found]
  ELSE IF index = n - 1 \/ index = n - 2
       THEN [keep |-> ~includes(el, Phrase), found |-> TRUE]
       ELSE [keep |-> TRUE, found |-> found]

\* `.filter(...)` from index on: the kept candidates with their indices.
RECURSIVE filterFrom(_, _, _)
filterFrom(cands, index, found) ==
  IF index >= Len(cands) THEN << >>
  ELSE LET r == filterStep(Len(cands), cands[index + 1], index, found)
       IN  (IF r.keep THEN << [index |-> index, el |-> cands[index + 1]] >>
            ELSE << >>)
             \o filterFrom(cands, index + 1, r.found)

\* /forum\/(\d+)\/(\d+)/ matched at index i: the ids and the index of the
\* last token, or end = 0.
urlMatchAt(text, i) ==
  LET j == skipWhile(text, i + 1, Digits)
      k == skipWhile(text, j + 1, Digits)
  IN  IF text[i] = "F" /\ j > i + 1 /\ j <= Len(text) /\ text[j] = "/"
         /\ k > j + 1
      THEN [cat |-> SubSeq(text, i + 1, j - 1),
            thread |-> SubSeq(text, j + 1, k - 1), end |-> k - 1]
      ELSE [cat |-> << >>, thread |-> << >>, end |-> 0]

\* `Array.from(fulltext.matchAll(urlRegex))` from index i on.
RECURSIVE matchAll(_, _)
matchAll(text, i) ==
  IF i > Len(text) THEN << >>
  ELSE LET m == urlMatchAt(text, i)
       IN  IF m.end > 0
           THEN << [cat |-> m.cat, thread |-> m.thread] >>
                   \o matchAll(text, m.end + 1)
           ELSE matchAll(text, i + 1)

\* Variant of lastUrlMatch that keeps the first match (`fulltext.match`
\* with a pattern without the g flag).
firstUrlMatch(text) ==
  LET ms == matchAll(text, 1)
  IN  IF ms = << >> THEN << >> ELSE << ms[1] >>

\* `Array.from(...).pop()`: the last match, << >> if there is none.
lastUrlMatch(text) ==
  LET ms == matchAll(text, 1)
  IN  IF ms = << >> THEN << >> ELSE << ms[Len(ms)] >>


\* ------------------------------------------------------------------- Init
\* No content body is being segmented.
SegOff ==
  /\ fulltext = << >>
  /\ body = << >>
  /\ lastIndex = 0
  /\ unrolledElements = << >>
  /\ updateElements = << >>
  /\ finalTitle = << >>
  /\ urlMatch = << >>
  /\ finalUpdates = << >>
  /\ spc = "off"

Init ==
  /\ SegOff
  /\ content \in Contents
  /\ tzShift \in TzShifts
  \* East of Athens every skipped row is fetched again until the depth
  \* guard ends the run: one-row tables show all of that behaviour.
  /\ tzShift < 0 => Len(content) = 1
  /\ wm \in { << >>, << 0 >> }
  /\ db = EmptyDb
  /\ tx = EmptyDb
  /\ txOpen = FALSE
  /\ pc = "start"
  /\ env = [userId |-> TRUE, userName |-> TRUE]
  /\ connected = FALSE
  /\ created = 0
  /\ depth = 0
  /\ cur = 0
  /\ step = 0
  /\ outcome = "running"
  /\ runs = 1
  /\ prev = 0
  /\ wmAtStart = wm
  /\ dbAtStart = db
  /\ commits = 0
  /\ wmWrites = 0
  /\ fetches = 0
  /\ failedStep = 0
  /\ failed = FALSE
  /\ examined = [j \in DOMAIN content |-> 0]

\* ------------------------------------------------------------------- main
Envs == [userId : BOOLEAN, userName : BOOLEAN]

\* Variant of configOk that forgets the USER_NAME test.
configOkIdOnly(e) == e.userId

\* `process.env.USER_ID` and `process.env.USER_NAME` are both set
configOk(e) == e.userId /\ e.userName

\* main returns before connecting: USER_ID or USER_NAME is not set.
MainConfigError ==
  /\ pc = "start"
  /\ \E e \in Envs :
       /\ ~configOk(e)
       /\ env' = e
  /\ outcome' = "config_error"
  /\ pc' = "done"
  /\ UNCHANGED << fixedVars, wm, storeVars, connected, runVars, runs, prev,
                  histVars >>

\* connectToDatabase caught an error and returned undefined.
MainConnectFailed ==
  /\ pc = "start"
  /\ \E e \in Envs :
       /\ configOk(e)
       /\ env' = e
  /\ outcome' = "connect_failed"
  /\ pc' = "done"
  /\ UNCHANGED << fixedVars, wm, storeVars, connected, runVars, runs, prev,
                  histVars >>

\* Connected, but getLastProcessedDate gave nothing: main returns at once
\* (line 413-416), without disconnectFromDatabase.
MainNoWatermark ==
  /\ pc = "start"
  /\ \E e \in Envs, readOk \in BOOLEAN :
       /\ configOk(e)
       /\ env' = e
       /\ getLastProcessedDate(wm, readOk) = << >>
  /\ connected' = TRUE
  /\ outcome' = "no_watermark"
  /\ pc' = "done"
  /\ UNCHANGED << fixedVars, wm, storeVars, runVars, runs, prev, histVars >>

\* Connected and the watermark read: processPost(connection, lastCreated).
MainProcess ==
  /\ pc = "start"
  /\ \E e \in Envs :
       /\ configOk(e)
       /\ env' = e
  /\ getLastProcessedDate(wm, TRUE) # << >>
  /\ connected' = TRUE
  /\ created' = getLastProcessedDate(wm, TRUE)[1]
  /\ depth' = 0
  /\ pc' = "process"
  /\ UNCHANGED << fixedVars, wm, storeVars, cur, step, outcome, runs, prev,
                  histVars >>

\* ------------------------------------------------------------ processPost
\* Variant of depthExceeded that stops one level early.
depthExceededEarly(d) == d >= MAX_RECURSION

\* `depth > MAX_RECURSION`
depthExceeded(d) == d > MAX_RECURSION

\* Variant of watermarkAfterSkip that persists the skipped row's time.
watermarkPersistedOnSkip(file, item) == << item.created >>

\* What a skip does to the persisted watermark: nothing, the formatted
\* creation time is only handed to the recursive call.
watermarkAfterSkip(file, item) == file

\* Variants of afterInsertMessage: recurse for another row, or write again.
afterInsertMessageRecurse == "process"
afterInsertMessageRetry == "begin"

\* Where control goes when insertMessage has returned: processPost logs the
\* post URL and returns to main, which disconnects.
afterInsertMessage == "disconnect"

ProcessExhausted ==
  /\ pc = "process"
  /\ depthExceeded(depth)
  /\ outcome' = "exhausted"
  /\ pc' = "disconnect"
  /\ UNCHANGED << fixedVars, wm, storeVars, env, connected, runVars, runs,
                  prev, histVars >>

\* getNextPost found nothing (or its query failed): "No next post found."
ProcessIdle ==
  /\ pc = "process"
  /\ ~depthExceeded(depth)
  /\ \E r \in QueryResults : getNextPost(content, created, r) = {}
  /\ fetches' = fetches + 1
  /\ outcome' = "idle"
  /\ pc' = "disconnect"
  /\ examined' = examined
  /\ UNCHANGED << fixedVars, wm, storeVars, env, connected, runVars, runs,
                  prev, wmAtStart, dbAtStart, commits, wmWrites, failedStep,
                  failed >>

\* The common tail of the four skips: recurse with the formatted creation
\* time of the skipped row and depth + 1.
Skip(i) ==
  /\ cur' = i
  /\ created' = formatDate(content[i].created)
  /\ depth' = depth + 1
  /\ wm' = watermarkAfterSkip(wm, content[i])
  /\ fetches' = fetches + 1
  /\ pc' = "process"
  /\ examined' = [examined EXCEPT ![i] = @ + 1]
  /\ UNCHANGED << fixedVars, storeVars, env, connected, step, outcome, runs,
                  prev, wmAtStart, dbAtStart, commits, wmWrites, failedStep,
                  failed >>

\* "Skipping post, no URL found."
ProcessSkipNoUrl ==
  /\ pc = "process"
  /\ ~depthExceeded(depth)
  /\ \E i \in getNextPost(content, created, "ok") :
       /\ ~content[i].url
       /\ Skip(i)

\* "Skipping post, no subject and parent found."
ProcessSkipNoThread ==
  /\ pc = "process"
  /\ ~depthExceeded(depth)
  /\ \E i \in getNextPost(content, created, "ok"), r \in QueryResults :
       /\ content[i].url
       /\ ~getSubjectAndParent(content[i], r)
       /\ Skip(i)

\* "No image found, skipping post."
ProcessSkipNoImage ==
  /\ pc = "process"
  /\ ~depthExceeded(depth)
  /\ \E i \in getNextPost(content, created, "ok"), r \in QueryResults :
       /\ content[i].url
       /\ getSubjectAndParent(content[i], "ok")
       /\ ~getImage(content[i], r)
       /\ Skip(i)

\* "Already posted, skipping."
ProcessSkipPosted ==
  /\ pc = "process"
  /\ ~depthExceeded(depth)
  /\ \E i \in getNextPost(content, created, "ok") :
       /\ content[i].url
       /\ getSubjectAndParent(content[i], "ok")
       /\ getImage(content[i], "ok")
       /\ hasBeenPosted(db, content[i].msg, "ok")
       /\ Skip(i)

\* Nothing stopped the row: insertMessage is called with it.
ProcessInsert ==
  /\ pc = "process"
  /\ ~depthExceeded(depth)
  /\ \E i \in getNextPost(content, created, "ok"), r \in QueryResults :
       /\ content[i].url
       /\ getSubjectAndParent(content[i], "ok")
       /\ getImage(content[i], "ok")
       /\ ~hasBeenPosted(db, content[i].msg, r)
       /\ cur' = i
  /\ fetches' = fetches + 1
  /\ pc' = "begin"
  /\ examined' = [examined EXCEPT ![cur'] = @ + 1]
  /\ UNCHANGED << fixedVars, wm, storeVars, env, connected, created, depth,
                  step, outcome, runs, prev, wmAtStart, dbAtStart, commits,
                  wmWrites, failedStep, failed >>

\* ---------------------------------------------------------- insertMessage
\* The rows the seven statements write, on the transaction's view t, for the
\* content row `item`.  The message id is the id of the row statement 1
\* inserted, the activity id that of the row statement 6 inserted.
applyStep(n, t, item) ==
  CASE n = 1 -> [t EXCEPT !.messages = @ + 1]
    [] n = 2 -> [t EXCEPT !.texts =
                    Append(@, [mesid |-> t.messages, message |-> item.msg])]
    [] n = 3 -> [t EXCEPT !.posts = @ + 1]
    [] n = 4 -> [t EXCEPT !.topicLast = t.messages]
    [] n = 5 -> [t EXCEPT !.catLast = t.messages]
    [] n = 6 -> [t EXCEPT !.activities = Append(@, 0)]
    [] n = 7 -> [t EXCEPT !.activities[Len(t.activities)] = Len(t.activities)]

\* connection.commit(): the transaction's view becomes the committed rows.
commit(d, t) == t

\* connection.rollback(): the committed rows stay as they were.
rollback(d, t) == d

\* await connection.beginTransaction()
Begin ==
  /\ pc = "begin"
  /\ \E r \in QueryResults :
       IF r = "ok"
       THEN /\ txOpen' = TRUE
            /\ tx' = db
            /\ step' = 1
            /\ pc' = "write"
            /\ failed' = failed
       ELSE /\ pc' = "rollback"
            /\ failed' = TRUE
            /\ UNCHANGED << tx, txOpen, step >>
  /\ examined' = examined
  /\ UNCHANGED << fixedVars, wm, db, env, connected, created, depth, cur,
                  outcome, runs, prev, wmAtStart, dbAtStart, commits, wmWrites,
                  fetches, failedStep >>

\* Statement `step` of the seven, and the check of its result.
Write ==
  /\ pc = "write"
  /\ \E r \in WriteResults :
       /\ failedStep' = IF r # "ok" /\ failedStep = 0 THEN step ELSE failedStep
       /\ tx' = IF r = "ok" THEN applyStep(step, tx, content[cur]) ELSE tx
       /\ IF stepFailed(r)
          THEN /\ pc' = "rollback"
               /\ failed' = TRUE
               /\ step' = step
          ELSE /\ pc' = IF step = 7 THEN "commit" ELSE "write"
               /\ failed' = failed
               /\ step' = IF step = 7 THEN step ELSE step + 1
  /\ examined' = examined
  /\ UNCHANGED << fixedVars, wm, db, txOpen, env, connected, created, depth,
                  cur, outcome, runs, prev, wmAtStart, dbAtStart, commits,
                  wmWrites, fetches >>

\* await connection.commit()
Commit ==
  /\ pc = "commit"
  /\ \E r \in QueryResults :
       IF r = "ok"
       THEN /\ db' = commit(db, tx)
            /\ txOpen' = FALSE
            /\ commits' = commits + 1
            /\ pc' = "setwm"
            /\ failed' = failed
       ELSE /\ pc' = "rollback"
            /\ failed' = TRUE
            /\ UNCHANGED << db, txOpen, commits >>
  /\ examined' = examined
  /\ UNCHANGED << fixedVars, wm, tx, env, connected, runVars, outcome, runs,
                  prev, wmAtStart, dbAtStart, wmWrites, fetches, failedStep >>

\* await setLastProcessedDate(data.created), still inside the try block:
\* a failing fs.writeFile lands in the catch block.  (The date read from a
\* DATETIME column is a valid Date, so the isNaN branch is not taken.)
SetWatermark ==
  /\ pc = "setwm"
  /\ \E writeOk \in BOOLEAN :
       IF writeOk
       THEN /\ wm' = setLastProcessedDate(content[cur].created)
            /\ wmWrites' = wmWrites + 1
            /\ outcome' = "posted"
            /\ pc' = afterInsertMessage
            /\ failed' = failed
       ELSE /\ pc' = "rollback"
            /\ failed' = TRUE
            /\ UNCHANGED << wm, wmWrites, outcome >>
  /\ examined' = examined
  /\ UNCHANGED << fixedVars, storeVars, env, connected, runVars, runs, prev,
                  wmAtStart, dbAtStart, commits, fetches, failedStep >>

\* catch (err) { await connection.rollback(); logger.error(...) }
\* A rollback that throws leaves insertMessage, processPost and main as an
\* unhandled rejection; the server drops the transaction with the session.
Rollback ==
  /\ pc = "rollback"
  /\ db' = rollback(db, tx)
  /\ tx' = rollback(db, tx)
  /\ txOpen' = FALSE
  /\ \E r \in QueryResults :
       IF r = "ok"
       THEN /\ outcome' = "write_failed"
            /\ pc' = afterInsertMessage
       ELSE /\ outcome' = "crashed"
            /\ pc' = "done"
  /\ UNCHANGED << fixedVars, wm, env, connected, runVars, runs, prev,
                  histVars >>

\* await disconnectFromDatabase(connection), the last line of main.
Disconnect ==
  /\ pc = "disconnect"
  /\ connected' = FALSE
  /\ pc' = "done"
  /\ UNCHANGED << fixedVars, wm, storeVars, env, runVars, outcome, runs, prev,
                  histVars >>

\* The scheduler starts the job again: a fresh process.
NextRun ==
  /\ pc = "done"
  /\ runs < MaxRuns
  /\ runs' = runs + 1
  /\ prev' = IF outcome = "posted" THEN cur ELSE 0
  /\ env' = [userId |-> TRUE, userName |-> TRUE]
  /\ pc' = "start"
  /\ outcome' = "running"
  /\ connected' = FALSE
  /\ created' = 0
  /\ depth' = 0
  /\ cur' = 0
  /\ step' = 0
  /\ tx' = db
  /\ txOpen' = FALSE
  /\ wmAtStart' = wm
  /\ dbAtStart' = db
  /\ commits' = 0
  /\ wmWrites' = 0
  /\ fetches' = 0
  /\ failedStep' = 0
  /\ failed' = FALSE
  /\ examined' = [j \in DOMAIN content |-> 0]
  /\ UNCHANGED << fixedVars, wm, db >>

Next ==
  \/ MainConfigError
  \/ MainConnectFailed
  \/ MainNoWatermark
  \/ MainProcess
  \/ ProcessExhausted
  \/ ProcessIdle
  \/ ProcessSkipNoUrl
  \/ ProcessSkipNoThread
  \/ ProcessSkipNoImage
  \/ ProcessSkipPosted
  \/ ProcessInsert
  \/ Begin
  \/ Write
  \/ Commit
  \/ SetWatermark
  \/ Rollback
  \/ Disconnect
  \/ NextRun

Spec == Init /\ [][Next]_vars

\* --------------------------------------------- the segmenter on its own
\* Element constructors.
P(t) == [tag |-> "p", text |-> t, kids |-> << >>]
Div(t, ks) == [tag |-> "div", text |-> t, kids |-> ks]

\* Texts of the enumerated fragments: no marker, a marker at the start
\* of the text, a marker at its end.
Plain == << "a" >>
MarkerFirst == << "[", "U", "]", " ", "b" >>
MarkerLast == << "a", " ", "[", "U", "]" >>

\* Elements without child elements.
Leaves ==
  {P(Plain), P(MarkerFirst), P(MarkerLast), Div(MarkerFirst, << >>)}

\* A div around one or two leaves, and a div around such a div.
Containers ==
  LET flat == {Div(<< >>, << a >>) : a \in Leaves}
                \cup {Div(<< >>, << a, b >>) : a \in Leaves, b \in Leaves}
  IN  flat \cup {Div(<< >>, << c >>) : c \in flat}

SeqsUpTo(S, n) == UNION {[1..k -> S] : k \in 0..n}

\* Bodies of up to MaxTop top-level elements.
TreeBodies == SeqsUpTo(Leaves \cup Containers, MaxTop)

\* Bodies of one paragraph holding `[UPDATE`, up to MaxMid tokens and `]`,
\* with or without text around it.
MidTokens == {" ", "2", ":", "a", "-", "]", "["}
TitleBodies ==
  {<< P(pre \o << "[", "U" >> \o mid \o << "]" >> \o post) >> :
      pre \in {<< >>, << "a", " " >>},
      mid \in SeqsUpTo(MidTokens, MaxMid),
      post \in {<< >>, << " ", "b" >>}}

\* Fulltexts: up to MaxUrlParts pieces, each a forum link or a part of one.
UrlParts ==
  {<< "F", "5", "/", "1", "0" >>, << "F", "7", "/", "2" >>, << "x" >>,
   << "F", "5" >>, << "/" >>, << "7" >>, << "F" >>}
UrlTexts ==
  {Concat(q) : q \in SeqsUpTo(UrlParts, MaxUrlParts)}

\* Paragraphs for the filter: without the phrase, with it, with the phrase
\* around a marker (in capitals, in lower case), and with the phrase
\* between a marker and a later closing bracket.
Straddled == << "forum", " ", "[", "U", "]", " ", "topic" >>
StraddledLower == << "forum", " ", "[", "u", "]", " ", "topic" >>
Swallowed == << "[", "U", "]", " ", "forum", " ", "topic", " ", "]" >>
FilterLeaves ==
  {P(Plain), P(Phrase), P(Straddled), P(StraddledLower), P(Swallowed)}

\* Bodies of up to MaxFrags such paragraphs.
FilterBodies == SeqsUpTo(FilterLeaves, MaxFrags)

\* processPost has fetched a row and is about to load its fulltext
\* (line 664); the pipeline around it stands still.
SegInit ==
  /\ \/ body \in TreeBodies \cup TitleBodies \cup FilterBodies
        /\ fulltext = << >>
     \/ body = << >> /\ fulltext \in UrlTexts
  /\ lastIndex = 0
  /\ unrolledElements = << >>
  /\ updateElements = << >>
  /\ finalTitle = << >>
  /\ urlMatch = << >>
  /\ finalUpdates = << >>
  /\ spc = "load"
  /\ content = << Item(1, [url |-> TRUE, thread |-> TRUE, image |-> TRUE,
                            msg |-> 1]) >>
  /\ tzShift = 0
  /\ wm = << 0 >>
  /\ db = EmptyDb
  /\ tx = EmptyDb
  /\ txOpen = FALSE
  /\ pc = "process"
  /\ env = [userId |-> TRUE, userName |-> TRUE]
  /\ connected = TRUE
  /\ created = 0
  /\ depth = 0
  /\ cur = 1
  /\ step = 0
  /\ outcome = "running"
  /\ runs = 1
  /\ prev = 0
  /\ wmAtStart = wm
  /\ dbAtStart = db
  /\ commits = 0
  /\ wmWrites = 0
  /\ fetches = 1
  /\ failedStep = 0
  /\ failed = FALSE
  /\ examined = [j \in DOMAIN content |-> 1]

\* Lines 666-668: the top-level elements are unrolled.
SegUnroll ==
  /\ spc = "load"
  /\ LET r == unrollAll(body, lastIndex)
     IN  /\ unrolledElements' = r.out
         /\ lastIndex' = r.lastIndex
  /\ spc' = "unrolled"
  /\ UNCHANGED << pipeVars, fulltext, body, updateElements, finalTitle,
                  urlMatch, finalUpdates >>

\* Lines 671-685: the update segment is cut out of the unrolled list.
SegUpdate ==
  /\ spc = "unrolled"
  /\ LET r == updateIndexReverse(unrolledElements, lastIndex)
     IN  /\ updateElements' = sliceUpdate(unrolledElements, r.index)
         /\ lastIndex' = r.lastIndex
  /\ spc' = "segment"
  /\ UNCHANGED << pipeVars, fulltext, body, unrolledElements, finalTitle,
                  urlMatch, finalUpdates >>

\* Lines 687-702, 736-737: the title; `match` leaves lastIndex at 0.
SegTitle ==
  /\ spc = "segment"
  /\ finalTitle' = titleOf(updateElements)
  /\ lastIndex' = 0
  /\ spc' = "title"
  /\ UNCHANGED << pipeVars, fulltext, body, unrolledElements,
                  updateElements, urlMatch, finalUpdates >>

\* Lines 708-709: the forum link of the fulltext.
SegUrl ==
  /\ spc = "title"
  /\ urlMatch' = lastUrlMatch(fulltext)
  /\ spc' = "url"
  /\ UNCHANGED << pipeVars, fulltext, body, lastIndex, unrolledElements,
                  updateElements, finalTitle, finalUpdates >>

\* Lines 738-758: the candidates of the segment, filtered.
SegCompose ==
  /\ spc = "url"
  /\ finalUpdates' = filterFrom(candidates(updateElements), 0, FALSE)
  /\ spc' = "composed"
  /\ UNCHANGED << pipeVars, fulltext, body, lastIndex, unrolledElements,
                  updateElements, finalTitle, urlMatch >>

SegNext ==
  \/ SegUnroll
  \/ SegUpdate
  \/ SegTitle
  \/ SegUrl
  \/ SegCompose

SegSpec == SegInit /\ [][SegNext]_vars


\* ================================================================ claims
\* The row lacks a thread URL, a thread context or an image.
SkipEligible(item) == ~item.url \/ ~item.thread \/ ~item.image

\* No content row is later than time t.
NoItemAfter(t) == \A i \in DOMAIN content : content[i].created <= t

\* C1: once a write statement of insertMessage has reported zero affected
\* rows or raised a fault, the committed rows are those the run started
\* with (nothing of the earlier statements is visible) and the persisted
\* watermark is the one the run started with.
C1_Atomicity ==
  failedStep # 0 => (db = dbAtStart /\ wm = wmAtStart /\ commits = 0)

\* C1 witness: statement 7 failed after six statements had written, the
\* transaction was rolled back and the run is over.
C1_Witness ==
  /\ pc = "done"
  /\ failedStep = 7
  /\ outcome = "write_failed"
  /\ db = dbAtStart

\* C2 (as claimed): a run that committed ends with the watermark file
\* holding the formatted creation time of the row it posted.
C2_CommitImpliesWatermark ==
  (pc = "done" /\ commits > 0) =>
     wm = << formatDate(content[cur].created) >>

\* C3: a run commits at most one forum message row.
C3_AtMostOnePost ==
  /\ commits <= 1
  /\ db.messages <= dbAtStart.messages + 1
  /\ Len(db.texts) <= Len(dbAtStart.texts) + 1

\* C3 witness: a run that skipped at least one row and then posted one.
C3_Witness ==
  /\ pc = "done"
  /\ commits = 1
  /\ depth > 0
  /\ db.messages = dbAtStart.messages + 1

\* C4 (as claimed): every write of the watermark file stores a time
\* strictly later than the one it held.
C4_WatermarkMovesForward ==
  [][wmWrites' > wmWrites => wm'[1] > wm[1]]_vars

\* C5 (as claimed): no two committed text rows of the poster hold the same
\* message.
C5_NoDuplicateMessages ==
  \A j, k \in DOMAIN db.texts :
     j # k => db.texts[j].message # db.texts[k].message

C7_RerunIsIdle ==
  (prev # 0 /\ pc = "done" /\ fetches > 0) =>
     (outcome = "idle" /\ commits = 0)

\* C7 (amended): the run that follows a run that posted, when no content
\* row is later than the watermark that run persisted, commits nothing and,
\* once it has queried the content table, ends idle.
C7_RerunIsIdleWhenNothingLater ==
  (prev # 0 /\ wmAtStart # << >> /\ NoItemAfter(wmAtStart[1])) =>
     /\ commits = 0
     /\ db = dbAtStart
     /\ wm = wmAtStart
     /\ fetches <= 1
     /\ (pc = "done" /\ fetches > 0) => outcome = "idle"

\* C7 witness: the second run, after the first posted the last row, has
\* fetched once and ended idle.
C7_Witness ==
  /\ prev # 0
  /\ NoItemAfter(wmAtStart[1])
  /\ pc = "done"
  /\ fetches = 1
  /\ outcome = "idle"

\* C8: the watermark file is written at most once per run, only after the
\* commit of that run; as long as it was not written (every skip, idle,
\* exhaustion, write failure, configuration error) it holds what it held
\* when the run started.
C8_WatermarkOnlyOnSuccess ==
  /\ wmWrites <= 1
  /\ wmWrites = 0 => wm = wmAtStart
  /\ wmWrites = 1 => (commits = 1 /\ outcome = "posted")
  /\ outcome \in {"idle", "exhausted", "write_failed", "crashed",
                  "config_error", "connect_failed", "no_watermark"}
        => (wm = wmAtStart /\ wmWrites = 0)

\* C8 witness: a run skipped rows and ended idle, the file as it was.
C8_Witness ==
  /\ pc = "done"
  /\ outcome = "idle"
  /\ depth > 1
  /\ wmWrites = 0
  /\ wm = wmAtStart

\* C9: once insertMessage is in its catch block the run fetches no further
\* row, starts no further transaction and changes neither the committed
\* rows nor the watermark file; the watermark is the one the run started
\* with, and the next invocation starts with that same watermark.
C9_NoWorkAfterWriteFailure ==
  [][ failed =>
        /\ db' = db
        /\ wm' = wm
        /\ wm = wmAtStart
        /\ pc' \in {"rollback", "disconnect", "done", "start"}
        /\ runs' = runs => fetches' = fetches
        /\ runs' # runs => wmAtStart' = wmAtStart ]_vars

\* C9 witness: a run skipped one row, failed to write the next and ended.
C9_Witness ==
  /\ pc = "done"
  /\ failed
  /\ outcome = "write_failed"
  /\ fetches = 2
  /\ wm = wmAtStart

\* C10: a run whose USER_ID or USER_NAME is missing, or that got no
\* watermark from the file, issues no query, writes nothing to the store
\* and does not write the watermark file.
C10_ConfigErrorNoWork ==
  (~env.userId \/ ~env.userName \/ wm = << >> \/ outcome = "no_watermark") =>
     /\ fetches = 0
     /\ db = dbAtStart
     /\ tx = db
     /\ ~txOpen
     /\ wm = wmAtStart
     /\ wmWrites = 0
     /\ pc \in {"start", "done"}

\* C10 witness: USER_NAME alone is missing and the run is over.
C10_Witness ==
  /\ pc = "done"
  /\ env.userId
  /\ ~env.userName
  /\ outcome = "config_error"
  /\ fetches = 0

\* C16 (as claimed): a skip changes neither store nor watermark file, raises
\* the depth by exactly one, and the fetch that follows asks for rows
\* strictly later than the creation time of the row just skipped.
C16_SkipAdvances ==
  [][ (pc = "process" /\ pc' = "process") =>
        /\ depth' = depth + 1
        /\ created' >= content[cur'].created
        /\ db' = db
        /\ tx' = tx
        /\ wm' = wm ]_vars

\* C17 (as claimed): insertMessage is never entered for a row whose body
\* has no child element.
C17_TextOnlyBodyNotPosted ==
  pc \in {"begin", "write", "commit", "setwm", "rollback"} =>
     content[cur].children

\* C18 (as claimed): no fault of the store or of the watermark file leaves
\* main as an uncaught exception.
C18_NoUncaughtFault ==
  outcome # "crashed"

\* C19 (as claimed): statements run inside the open transaction, in order
\* 1..7, none after a failed one; commit follows statement 7 only; a
\* transaction that was begun is ended by exactly one of a successful commit
\* and a completed rollback.
C19_TransactionProtocol ==
  /\ pc = "write" => (txOpen /\ step \in 1..7 /\ failedStep = 0)
  /\ pc = "commit" => (txOpen /\ step = 7 /\ failedStep = 0)
  /\ commits > 0 => failedStep = 0
  /\ (pc = "done" /\ step >= 1) =>
        ((commits = 1) # (outcome = "write_failed"))

\* ------------------------------------------------- claims on the segmenter
\* The text contains a match of the marker pattern.
HasMarker(text) == execFrom(text, 1).found

\* Index of the last fragment of the list whose text contains a marker,
\* 0 if no fragment does.
LastMarker(list) ==
  LET ks == {k \in 1..Len(list) : HasMarker(TextOf(list[k]))}
  IN  IF ks = {} THEN 0 ELSE CHOOSE k \in ks : \A m \in ks : m <= k

SegmentCut == spc \in {"segment", "title", "url", "composed"}

\* C11 (as claimed): when a fragment of the unrolled list matches the
\* marker pattern, the update segment is the suffix of the list that starts
\* at the last such fragment, wherever that fragment stands.
C11_SegmentFromLastMarker ==
  (SegmentCut /\ LastMarker(unrolledElements) > 0) =>
     updateElements = SubSeq(unrolledElements, LastMarker(unrolledElements),
                             Len(unrolledElements))

\* C12: when no fragment of the unrolled list matches the marker pattern,
\* the update segment is the whole unrolled list.
C12_NoMarkerWholeList ==
  (SegmentCut /\ LastMarker(unrolledElements) = 0) =>
     updateElements = unrolledElements

\* C12 witness: a list of two fragments without a marker has been cut, and
\* the segment holds both.
C12_Witness ==
  /\ spc = "segment"
  /\ Len(unrolledElements) = 2
  /\ LastMarker(unrolledElements) = 0
  /\ Len(updateElements) = 2

\* The first fragment of the segment reads `[UPDATE: T]` with a title T of
\* words and blanks that starts with a word.
ColonTitled(text) ==
  /\ Len(text) >= 6
  /\ SubSeq(text, 1, 4) = << "[", "U", ":", " " >>
  /\ text[Len(text)] = "]"
  /\ text[5] \in {"a", "b"}
  /\ \A i \in 5..(Len(text) - 1) : text[i] \in {"a", "b", " "}

\* C13 (as claimed): a first fragment `[UPDATE: T]` gives exactly the
\* title T.
C13_ColonTitleExtracted ==
  (spc \in {"title", "url", "composed"} /\ updateElements # << >>
      /\ ColonTitled(TextOf(updateElements[1]))) =>
     finalTitle = SubSeq(TextOf(updateElements[1]), 5,
                         Len(TextOf(updateElements[1])) - 1)

\* The text is a marker without a title: `[UPDATE]` or `[UPDATE 2]`.
BareMarker(text) ==
  text \in {<< "[", "U", "]" >>, << "[", "U", " ", "2", "]" >>}

\* C14 (as claimed): a first fragment that is a marker without a title
\* gives the title of the content row.
C14_BareMarkerFallsBack ==
  (spc \in {"title", "url", "composed"} /\ updateElements # << >>
      /\ BareMarker(TextOf(updateElements[1]))) =>
     finalTitle = ItemTitle

\* text[i..k] is a forum link that no further digit extends: `forum/`,
\* digits up to the slash at j, digits up to k.
IsLink(text, i, j, k) ==
  /\ text[i] = "F"
  /\ i + 1 < j /\ j < k
  /\ \A x \in (i + 1)..(j - 1) : text[x] \in Digits
  /\ text[j] = "/"
  /\ \A x \in (j + 1)..k : text[x] \in Digits
  /\ k < Len(text) => text[k + 1] \notin Digits

Links(text) ==
  {l \in (1..Len(text)) \X (1..Len(text)) \X (1..Len(text)) :
      IsLink(text, l[1], l[2], l[3])}

C20_NoMarkedDivLeft ==
  spc # "load" =>
     \A k \in 1..Len(unrolledElements) :
        ~(unrolledElements[k].tag = "div"
            /\ HasMarker(TextOf(unrolledElements[k])))

\* ------------------------------------------------ claims on the composer
\* The indices (from 0) the filter is to keep of n candidates: every index
\* below n - 2, and the first of the last two if its candidate lacks the
\* phrase.
KeptIndices(cands) ==
  LET n == Len(cands)
      first == IF n >= 2 THEN n - 2 ELSE 0
  IN  {i \in 0..(n - 1) :
          i < n - 2 \/ (i = first /\ ~includes(cands[i + 1], Phrase))}

\* C21: of the n candidates of a segment (its fragments, serialized and
\* with the marker stripped) the filter keeps, in order, every one at an
\* index below n - 2 and the one at the first of the last two positions
\* if and only if its text lacks "forum topic"; it keeps none after that.
C21_BoundaryFilter ==
  spc = "composed" =>
     LET cands == candidates(updateElements)
         kept == KeptIndices(cands)
     IN  /\ Len(finalUpdates) = Cardinality(kept)
         /\ \A k \in 1..Len(finalUpdates) :
              /\ finalUpdates[k].index \in kept
              /\ finalUpdates[k].el = cands[finalUpdates[k].index + 1]
              /\ k > 1 => finalUpdates[k - 1].index < finalUpdates[k].index

\* C21 witness: of three candidates without the phrase the first two are
\* kept and the last is dropped.
C21_Witness ==
  /\ spc = "composed"
  /\ Len(updateElements) = 3
  /\ \A k \in 1..3 : ~includes(candidates(updateElements)[k], Phrase)
  /\ Len(finalUpdates) = 2
  /\ finalUpdates[2].index = 1

\* ------------------------------------------------- claims on the row scan
\* Number of times row j was handed to processPost in this run.
TimesExamined(j) == examined[j]

\* C22 (as claimed): within a run every row later than the watermark the
\* run started from and not later than the last row the run examined has
\* been examined exactly once, rows sharing a creation time included.
C22_NoRowPassedOver ==
  (cur # 0 /\ TimesExamined(cur) > 0 /\ wmAtStart # << >>) =>
     \A j \in DOMAIN content :
        (/\ content[j].created > wmAtStart[1]
         /\ content[j].created <= content[cur].created)
           => TimesExamined(j) = 1

\* ------------------------------------------- claims on progress and closing
\* The row could be posted now: thread URL, thread and image exist and its
\* message is not among the poster's committed texts.
Postable(item) ==
  /\ item.url /\ item.thread /\ item.image
  /\ ~hasBeenPosted(db, item.msg, "ok")

\* C23 (as claimed): repeated runs reach a postable row beyond the persisted
\* watermark however many skip-eligible rows lie before it.  Every run
\* starts from the persisted watermark and the committed rows alone, so a
\* run that met nothing but rows which are skip-eligible by their own data
\* and ended on the depth guard must have moved the watermark: otherwise
\* every later run meets the same rows and ends the same way.
C23_ExhaustedRunAdvances ==
  (/\ pc = "done"
   /\ outcome = "exhausted"
   /\ wmAtStart # << >>
   /\ \A j \in DOMAIN content :
        TimesExamined(j) > 0 => SkipEligible(content[j])
   /\ \E j \in DOMAIN content :
        content[j].created > created /\ Postable(content[j]))
     => wm # wmAtStart

\* C24 (as claimed): a run that opened a connection has closed it when it
\* ends, on every terminal path.
C24_ConnectionClosed ==
  pc = "done" => ~connected

====
